---------------------------- MODULE Spec2Model ----------------------------
(***************************************************************************)
(* OpenSCAD-Bench: the two-stage parallel execution engine.                *)
(*                                                                         *)
(*   Spec        the prompt stage, run_models_parallel (src/parallel.py):  *)
(*               one worker thread per entry of the model list, the        *)
(*               engine's poll loop, the shared status dict and its lock.  *)
(*   FairSpec    the same with fair scheduling of every thread.            *)
(*   SpecIsolation  the prompt stage on three distinct models.             *)
(*   SpecDistinct   the prompt stage on lists without repeated entries.    *)
(*   SpecRender  render_stl (src/renderer.py) applied to every outcome of  *)
(*               the renderer subprocess.                                  *)
(*                                                                         *)
(* Granularity of the prompt stage: one step per Python statement that     *)
(* touches the shared status dict.  Acquiring the lock is merged with the  *)
(* first statement of a `with lock:` block and releasing it with the last  *)
(* one; the statements in between are separate steps, because the engine   *)
(* reads the dict without the lock (lines 204-207, 216-218, 224) and can   *)
(* run between any two of them.                                            *)
(***************************************************************************)
EXTENDS Integers, Sequences, FiniteSets, TLC

\* ------------------------------------------------------------------ bounds

\* Longest model list passed to run_models_parallel.
MaxModels == 2
\* Largest value time.time() reaches (the clock starts at 1).
MaxTime == 2
\* Most on_activity() calls one transport call makes.
MaxTicks == 1
\* Longest stderr / stdout text of the renderer subprocess.
MaxStrLen == 2
\* Largest exit code of the renderer subprocess.
MaxExit == 1
\* Longest wall-clock duration of a renderer subprocess, in clock units.
MaxDur == 2
MaxBench == 2
MaxPool == 2
MaxLines == 3
MaxChunks == 2
MaxResults == 6
MaxIdLen == 4

\* ------------------------------------------------------------- optionals

\* Python's None, and a present value.
None == [present |-> FALSE]
Some(x) == [present |-> TRUE, val |-> x]

\* ---------------------------------------------------------- prompt stage

VARIABLES
    models,     \* the list `models` passed to run_models_parallel
    sd,         \* status_dict: model id -> ModelStatus
    lock,       \* threading.Lock: 0 when free, else the worker holding it
    now,        \* time.time()
    wpc,        \* worker -> its position in _run_single_model
    wstart,     \* worker -> its local start_time
    welapsed,   \* worker -> its local elapsed
    wout,       \* worker -> how its transport call ended
    wticks,     \* worker -> on_activity() calls made so far
    mpc,        \* the engine thread's position in run_models_parallel
    midx,       \* the engine's index in the iteration it is in
    mtime,      \* the engine's local current_time
    torn        \* an unlocked read has seen a terminal status without its payload

\* ---------------------------------------------------------- render_stl

VARIABLES
    rin,        \* what the renderer subprocess did
    rres        \* the RenderResult returned, None before the call

\* ------------------------------------------------ render stage of a run

VARIABLES
    statuses,       \* model_statuses: what run_models_parallel returned
    tenv,           \* model -> what its render task will meet
    max_workers,    \* the pool size given to process_renders_parallel
    bpc,            \* the main thread's position in run_benchmark
    render_tasks,   \* the list render_tasks, as model ids
    model_results,  \* model -> BenchmarkResult
    files,          \* model -> the files in its output directory
    nsub,           \* tasks submitted to the executor so far
    tpc,            \* task -> position of its render_task call
    fut,            \* task -> the result its future holds, None before
    yielded,        \* tasks whose future as_completed has yielded
    results,        \* the dict `results` of process_renders_parallel
    cur,            \* the task whose completion is being handled, or 0
    calls,          \* model -> the results on_complete was called with
    exc,            \* the exception that left the as_completed loop
    doneAtExc       \* tasks that had finished when it was raised

\* ------------------------------------------------ send_prompt_streaming

VARIABLES
    sse_lines,              \* the lines the server sends, without "\n"
    stream,                 \* the chunks iter_content yields
    sidx,                   \* chunks consumed so far
    buffer,                 \* the local buffer
    accumulated_content,
    accumulated_reasoning,
    finish_reason,
    response_id,
    response_model,
    activity,               \* on_activity() calls made so far
    spc,                    \* position in send_prompt_streaming
    reconstructed_response  \* the returned dict, None before

\* ------------------------------------------------ single function calls

VARIABLES
    fin,        \* the arguments of the call being followed
    fout        \* what the call returned or raised, None before

pvars == <<models, sd, lock, now, wpc, wstart, welapsed, wout, wticks,
           mpc, midx, mtime, torn>>
rvars == <<rin, rres>>
bvars == <<statuses, tenv, max_workers, bpc, render_tasks, model_results,
           files, nsub, tpc, fut, yielded, results, cur, calls, exc,
           doneAtExc>>
svars == <<sse_lines, stream, sidx, buffer, accumulated_content,
           accumulated_reasoning, finish_reason, response_id, response_model,
           activity, spc, reconstructed_response>>
fvars == <<fin, fout>>
vars == <<pvars, rvars, bvars, svars, fvars>>


\* ------------------------------------------------- prompt stage: helpers

\* Model identifiers are opaque strings; they are numbered here.
ModelIds == 1..MaxModels

\* The lists load_config accepts: non-empty, repeated identifiers allowed
\* (only the format of each entry is validated).  Lists that differ only by
\* a renaming of the identifiers behave alike, so each is taken with its
\* identifiers numbered in order of first occurrence.
ModelLists ==
    { ms \in UNION { [1..n -> ModelIds] : n \in 1..MaxModels } :
        /\ ms[1] = 1
        /\ \A i \in 2..Len(ms) :
              \E j \in 1..(i-1) : ms[i] <= ms[j] + 1 }

\* A fresh ModelStatus(model=model): the dataclass defaults.
NewStatus ==
    [status |-> "waiting", elapsed_time |-> 0, error_message |-> None,
     response |-> None, start_time |-> None, spinner_index |-> 0]

\* The keys of {model: ... for model in models}, in dict (first-insertion) order.
RECURSIVE DictKeys(_)
DictKeys(ms) ==
    IF ms = <<>> THEN <<>>
    ELSE LET front == DictKeys(SubSeq(ms, 1, Len(ms) - 1))
             last == ms[Len(ms)]
         IN IF \E i \in 1..Len(front) : front[i] = last
            THEN front ELSE Append(front, last)

\* status_dict = {model: ModelStatus(model=model) for model in models}
NewStatusDict(ms) ==
    [m \in { ms[i] : i \in 1..Len(ms) } |-> NewStatus]

Workers == 1..Len(models)

\* A worker that writes the first model's record whatever its own model is.
RecOfMut(w) == models[1]

\* status_dict[model] inside worker w: the record the worker writes.
RecOf(w) == models[w]

\* A termination check that takes only done for terminal.
IsTerminalMut(s) == s = "done"

\* status in ("done", "error")
IsTerminal(s) == s \in {"done", "error"}

\* Python truthiness of status.start_time: None and 0.0 are false.
Truthy(t) == t.present /\ t.val # 0

\* A record whose terminal status is visible while its payload is not yet.
Torn(r) ==
    \/ r.status = "done" /\ ~r.response.present
    \/ r.status = "error" /\ ~r.error_message.present

\* How a transport call ends: it returns a response, raises an
\* OpenRouterError, or raises any other Exception.
Outcomes == {"ok", "api", "exc"}

\* The response send_prompt_streaming returns to worker w.
ResponseOf(w) == Some(<<"response", w>>)

\* str(e), or f"Unexpected error: {e}", of the exception worker w caught.
ErrorOf(w, out) ==
    IF out = "api" THEN Some(<<"OpenRouterError", w>>)
    ELSE Some(<<"Unexpected error", w>>)

\* ---------------------------------------------------- prompt stage: Init

\* The render variables while the prompt stage runs.
RenderIdle ==
    /\ rin = [kind |-> "exit", returncode |-> 0, exists |-> TRUE,
              stderr |-> <<>>, stdout |-> <<>>, dur |-> 0]
    /\ rres = None

\* No single function call is being followed.
CallIdle ==
    /\ fin = [call |-> "none"]
    /\ fout = None

\* The variables of the transport call while none is being followed.
StreamIdle ==
    /\ sse_lines = <<>>
    /\ stream = <<>>
    /\ sidx = 0
    /\ buffer = <<>>
    /\ accumulated_content = <<>>
    /\ accumulated_reasoning = <<>>
    /\ finish_reason = None
    /\ response_id = None
    /\ response_model = None
    /\ activity = 0
    /\ spc = "idle"
    /\ reconstructed_response = None

\* The variables of the render stage before run_benchmark reaches it.
BenchIdle ==
    /\ statuses = <<>>
    /\ tenv = <<>>
    /\ max_workers = 1
    /\ bpc = "idle"
    /\ render_tasks = <<>>
    /\ model_results = <<>>
    /\ files = <<>>
    /\ nsub = 0
    /\ tpc = <<>>
    /\ fut = <<>>
    /\ yielded = {}
    /\ results = <<>>
    /\ cur = 0
    /\ calls = <<>>
    /\ exc = None
    /\ doneAtExc = {}

InitPrompt(ms) ==
    /\ models = ms
    /\ sd = NewStatusDict(ms)
    /\ lock = 0
    /\ now = 1
    /\ wpc = [w \in 1..Len(ms) |-> "idle"]
    /\ wstart = [w \in 1..Len(ms) |-> 0]
    /\ welapsed = [w \in 1..Len(ms) |-> 0]
    /\ wout = [w \in 1..Len(ms) |-> "none"]
    /\ wticks = [w \in 1..Len(ms) |-> 0]
    /\ mpc = "submit"
    /\ midx = 1
    /\ mtime = 0
    /\ torn = FALSE

Init ==
    /\ \E ms \in ModelLists : InitPrompt(ms)
    /\ RenderIdle
    /\ BenchIdle
    /\ StreamIdle
    /\ CallIdle

\* ------------------------------------------- prompt stage: worker thread

\* time.time() advances.
Tick ==
    /\ now < MaxTime
    /\ now' = now + 1
    /\ UNCHANGED <<models, sd, lock, wpc, wstart, welapsed, wout, wticks,
                   mpc, midx, mtime, torn, rvars, bvars, svars, fvars>>

\* line 94: start_time = time.time()
W_start(w) ==
    /\ wpc[w] = "init"
    /\ wstart' = [wstart EXCEPT ![w] = now]
    /\ wpc' = [wpc EXCEPT ![w] = "to_stream"]
    /\ UNCHANGED <<models, sd, lock, now, welapsed, wout, wticks,
                   mpc, midx, mtime, torn, rvars, bvars, svars, fvars>>

\* lines 97-98: with lock: status_dict[model].status = "streaming"
W_streaming1(w) ==
    /\ wpc[w] = "to_stream"
    /\ lock = 0
    /\ lock' = w
    /\ sd' = [sd EXCEPT ![RecOf(w)].status = "streaming"]
    /\ wpc' = [wpc EXCEPT ![w] = "stream2"]
    /\ UNCHANGED <<models, now, wstart, welapsed, wout, wticks,
                   mpc, midx, mtime, torn, rvars, bvars, svars, fvars>>

\* A worker that leaves its first block without releasing the lock.
W_streaming2Mut(w) ==
    /\ wpc[w] = "stream2"
    /\ lock = w
    /\ sd' = [sd EXCEPT ![RecOf(w)].start_time = Some(wstart[w])]
    /\ wpc' = [wpc EXCEPT ![w] = "call"]
    /\ UNCHANGED <<models, lock, now, wstart, welapsed, wout, wticks,
                   mpc, midx, mtime, torn, rvars, bvars, svars, fvars>>

\* line 99: status_dict[model].start_time = start_time; the lock is released
W_streaming2(w) ==
    /\ wpc[w] = "stream2"
    /\ lock = w
    /\ sd' = [sd EXCEPT ![RecOf(w)].start_time = Some(wstart[w])]
    /\ lock' = 0
    /\ wpc' = [wpc EXCEPT ![w] = "call"]
    /\ UNCHANGED <<models, now, wstart, welapsed, wout, wticks,
                   mpc, midx, mtime, torn, rvars, bvars, svars, fvars>>

\* lines 103-104, on_activity called by the transport:
\* with lock: status_dict[model].elapsed_time = time.time() - start_time
W_activity1(w) ==
    /\ wpc[w] = "call"
    /\ wticks[w] < MaxTicks
    /\ lock = 0
    /\ lock' = w
    /\ sd' = [sd EXCEPT ![RecOf(w)].elapsed_time = now - wstart[w]]
    /\ wpc' = [wpc EXCEPT ![w] = "act2"]
    /\ UNCHANGED <<models, now, wstart, welapsed, wout, wticks,
                   mpc, midx, mtime, torn, rvars, bvars, svars, fvars>>

\* line 105: status_dict[model].spinner_index += 1; the lock is released
W_activity2(w) ==
    /\ wpc[w] = "act2"
    /\ lock = w
    /\ sd' = [sd EXCEPT ![RecOf(w)].spinner_index = @ + 1]
    /\ lock' = 0
    /\ wticks' = [wticks EXCEPT ![w] = @ + 1]
    /\ wpc' = [wpc EXCEPT ![w] = "call"]
    /\ UNCHANGED <<models, now, wstart, welapsed, wout,
                   mpc, midx, mtime, torn, rvars, bvars, svars, fvars>>

\* lines 108-118, 125-126, 133-134: the transport call returns or raises,
\* then elapsed = time.time() - start_time
W_return(w) ==
    /\ wpc[w] = "call"
    /\ \E out \in Outcomes : wout' = [wout EXCEPT ![w] = out]
    /\ welapsed' = [welapsed EXCEPT ![w] = now - wstart[w]]
    /\ wpc' = [wpc EXCEPT ![w] = "term1"]
    /\ UNCHANGED <<models, sd, lock, now, wstart, wticks,
                   mpc, midx, mtime, torn, rvars, bvars, svars, fvars>>

\* lines 120-121, 128-129, 136-137: with lock: status = "done" / "error"
W_terminal1(w) ==
    /\ wpc[w] = "term1"
    /\ lock = 0
    /\ lock' = w
    /\ sd' = [sd EXCEPT ![RecOf(w)].status =
                 IF wout[w] = "ok" THEN "done" ELSE "error"]
    /\ wpc' = [wpc EXCEPT ![w] = "term2"]
    /\ UNCHANGED <<models, now, wstart, welapsed, wout, wticks,
                   mpc, midx, mtime, torn, rvars, bvars, svars, fvars>>

\* lines 122, 130, 138: status_dict[model].elapsed_time = elapsed
W_terminal2(w) ==
    /\ wpc[w] = "term2"
    /\ lock = w
    /\ sd' = [sd EXCEPT ![RecOf(w)].elapsed_time = welapsed[w]]
    /\ wpc' = [wpc EXCEPT ![w] = "term3"]
    /\ UNCHANGED <<models, lock, now, wstart, welapsed, wout, wticks,
                   mpc, midx, mtime, torn, rvars, bvars, svars, fvars>>

\* lines 123, 131, 139: response = response / error_message = ...; the lock
\* is released and the worker's future completes
W_terminal3(w) ==
    /\ wpc[w] = "term3"
    /\ lock = w
    /\ sd' = IF wout[w] = "ok"
             THEN [sd EXCEPT ![RecOf(w)].response = ResponseOf(w)]
             ELSE [sd EXCEPT ![RecOf(w)].error_message = ErrorOf(w, wout[w])]
    /\ lock' = 0
    /\ wpc' = [wpc EXCEPT ![w] = "finished"]
    /\ UNCHANGED <<models, now, wstart, welapsed, wout, wticks,
                   mpc, midx, mtime, torn, rvars, bvars, svars, fvars>>

\* _run_single_model, one step of worker w
Worker(w) ==
    \/ W_start(w)
    \/ W_streaming1(w)
    \/ W_streaming2(w)
    \/ W_activity1(w)
    \/ W_activity2(w)
    \/ W_return(w)
    \/ W_terminal1(w)
    \/ W_terminal2(w)
    \/ W_terminal3(w)


\* ------------------------------------------- prompt stage: engine thread

\* One unlocked read of a record by the engine: the termination check
\* (line 205) or one row of _build_status_table (lines 56-73).
ReadUnlocked(m) == torn' = (torn \/ Torn(sd[m]))

\* An engine that returns without waiting for its workers.
AllFinishedMut == TRUE

\* The executor has joined every worker (lines 232-238 and the end of the
\* `with ThreadPoolExecutor` block, which waits for every future).
AllFinished == \A w \in Workers : wpc[w] = "finished"

\* lines 179-197: every worker is submitted (max_workers = len(models), so
\* each gets a thread at once), then Live(...) builds the first table
M_submit ==
    /\ mpc = "submit"
    /\ wpc' = [w \in Workers |-> "init"]
    /\ mpc' = "table"
    /\ midx' = 1
    /\ UNCHANGED <<models, sd, lock, now, wstart, welapsed, wout, wticks,
                   mtime, torn, rvars, bvars, svars, fvars>>

\* lines 204-207: while not all(status_dict[model].status in ("done",
\* "error") for model in models): one element of the generator per step,
\* read without the lock
M_check ==
    /\ mpc = "check"
    /\ ReadUnlocked(models[midx])
    /\ IF ~IsTerminal(sd[models[midx]].status)
       THEN mpc' = "sample" /\ midx' = 1
       ELSE IF midx < Len(models)
            THEN mpc' = "check" /\ midx' = midx + 1
            ELSE mpc' = "final" /\ midx' = 1
    /\ UNCHANGED <<models, sd, lock, now, wpc, wstart, welapsed, wout,
                   wticks, mtime, rvars, bvars, svars, fvars>>

\* line 209: current_time = time.time()
M_sample ==
    /\ mpc = "sample"
    /\ mtime' = now
    /\ mpc' = "update"
    /\ UNCHANGED <<models, sd, lock, now, wpc, wstart, welapsed, wout,
                   wticks, midx, torn, rvars, bvars, svars, fvars>>

\* lines 210-213: with lock: for every streaming record with a start_time,
\* elapsed_time = current_time - start_time.  Nothing else runs on the dict
\* while the engine holds the lock for the whole loop.
M_update ==
    /\ mpc = "update"
    /\ lock = 0
    /\ sd' = [m \in DOMAIN sd |->
                IF sd[m].status = "streaming" /\ Truthy(sd[m].start_time)
                THEN [sd[m] EXCEPT !.elapsed_time = mtime - sd[m].start_time.val]
                ELSE sd[m]]
    /\ mpc' = "table"
    /\ midx' = 1
    /\ UNCHANGED <<models, lock, now, wpc, wstart, welapsed, wout, wticks,
                   mtime, torn, rvars, bvars, svars, fvars>>

\* lines 197 and 216-220: _build_status_table(status_dict), one row per
\* step in dict order, read without the lock; then time.sleep(0.1)
M_table ==
    /\ mpc = "table"
    /\ ReadUnlocked(DictKeys(models)[midx])
    /\ IF midx < Len(DictKeys(models))
       THEN mpc' = "table" /\ midx' = midx + 1
       ELSE mpc' = "check" /\ midx' = 1
    /\ UNCHANGED <<models, sd, lock, now, wpc, wstart, welapsed, wout,
                   wticks, mtime, rvars, bvars, svars, fvars>>

\* line 224: console.print(_build_status_table(status_dict)), after the loop
M_final ==
    /\ mpc = "final"
    /\ ReadUnlocked(DictKeys(models)[midx])
    /\ IF midx < Len(DictKeys(models))
       THEN mpc' = "final" /\ midx' = midx + 1
       ELSE mpc' = "join" /\ midx' = 1
    /\ UNCHANGED <<models, sd, lock, now, wpc, wstart, welapsed, wout,
                   wticks, mtime, rvars, bvars, svars, fvars>>

\* lines 232-240: every future has completed; return status_dict
M_join ==
    /\ mpc = "join"
    /\ AllFinished
    /\ mpc' = "returned"
    /\ UNCHANGED <<models, sd, lock, now, wpc, wstart, welapsed, wout,
                   wticks, midx, mtime, torn, rvars, bvars, svars, fvars>>

\* run_models_parallel, one step of the calling thread
Main ==
    \/ M_submit
    \/ M_check
    \/ M_sample
    \/ M_update
    \/ M_table
    \/ M_final
    \/ M_join

\* One step of some worker thread, statement by statement.
WorkerSteps ==
    \/ \E w \in Workers : W_start(w)
    \/ \E w \in Workers : W_streaming1(w)
    \/ \E w \in Workers : W_streaming2(w)
    \/ \E w \in Workers : W_activity1(w)
    \/ \E w \in Workers : W_activity2(w)
    \/ \E w \in Workers : W_return(w)
    \/ \E w \in Workers : W_terminal1(w)
    \/ \E w \in Workers : W_terminal2(w)
    \/ \E w \in Workers : W_terminal3(w)

Next ==
    \/ Tick
    \/ Main
    \/ WorkerSteps

Spec == Init /\ [][Next]_vars

\* Every thread is scheduled fairly and every transport call ends.
FairSpec ==
    /\ Spec
    /\ WF_vars(Main)
    /\ \A w \in 1..MaxModels : WF_vars(w \in Workers /\ Worker(w))


\* The isolation scenario of the spec's test: three distinct models
\* dispatched concurrently, under a clock that does not advance during the
\* run; each transport call may succeed or fail.
InitIsolation ==
    /\ InitPrompt(<<1, 2, 3>>)
    /\ RenderIdle
    /\ BenchIdle
    /\ StreamIdle
    /\ CallIdle

NextIsolation ==
    \/ Main
    \/ WorkerSteps

SpecIsolation == InitIsolation /\ [][NextIsolation]_vars

\* The prompt stage on lists without repeated identifiers.
InitDistinct ==
    /\ \E ms \in { l \in ModelLists :
                      \A i, j \in 1..Len(l) : i # j => l[i] # l[j] } :
          InitPrompt(ms)
    /\ RenderIdle
    /\ BenchIdle
    /\ StreamIdle
    /\ CallIdle

SpecDistinct == InitDistinct /\ [][Next]_vars

\* ------------------------------------------------- prompt stage: claims

\* The engine has returned status_dict to its caller.
Returned == mpc = "returned"

\* C8: under fair scheduling, and with every transport call ending, every
\* model reaches done or error and run_models_parallel returns the status
\* collection, which holds one record per requested model.
C8_Terminates ==
    <>(/\ Returned
       /\ DOMAIN sd = { models[i] : i \in 1..Len(models) }
       /\ \A m \in DOMAIN sd : sd[m].status \in {"done", "error"})


\* C1: when run_models_parallel returns, every record of the returned
\* collection has status done or error; none is waiting or streaming.
C1_AllTerminalOnReturn ==
    Returned => \A m \in DOMAIN sd : sd[m].status \in {"done", "error"}

\* C1's case: the engine has returned a collection of two models, one done
\* and one failed.
C1_Witness ==
    /\ Returned
    /\ DOMAIN sd = {1, 2}
    /\ sd[1].status = "done"
    /\ sd[2].status = "error"

\* C2: whenever the lock is free, done goes with a response and no error
\* message, error with an error message and no response, and waiting or
\* streaming with neither.
C2_PayloadInvariant ==
    lock = 0 =>
      \A m \in DOMAIN sd :
        /\ sd[m].status = "done" <=>
             (sd[m].response.present /\ ~sd[m].error_message.present)
        /\ sd[m].status = "error" <=>
             (sd[m].error_message.present /\ ~sd[m].response.present)
        /\ sd[m].status \in {"waiting", "streaming"} =>
             (~sd[m].response.present /\ ~sd[m].error_message.present)

\* C3: a status changes only waiting -> streaming, streaming -> done or
\* streaming -> error, and a record that is terminal (its terminal
\* transition complete, the lock released) is never changed again.
C3_StateMachine ==
    [][\A m \in DOMAIN sd :
         /\ sd'[m].status # sd[m].status =>
              <<sd[m].status, sd'[m].status>> \in
                 { <<"waiting", "streaming">>, <<"streaming", "done">>,
                   <<"streaming", "error">> }
         /\ (lock = 0 /\ sd[m].status \in {"done", "error"}) =>
              sd'[m] = sd[m]]_vars

\* C4: a step of model A's worker changes no field of any other model's
\* record, and when the engine returns, every model whose own transport
\* call succeeded is done with its response, whatever happened to the
\* others.
C4_Isolation ==
    /\ [][\A w \in Workers :
            wpc'[w] # wpc[w] /\ wpc[w] # "idle" =>
              \A m \in DOMAIN sd : m # models[w] => sd'[m] = sd[m]]_vars
    /\ [](Returned =>
            \A w \in Workers :
              (\A v \in Workers : models[v] = models[w] => wout[v] = "ok") =>
                /\ sd[models[w]].status = "done"
                /\ sd[models[w]].response \in
                     { ResponseOf(v) : v \in { u \in Workers : models[u] = models[w] } }
                /\ ~sd[models[w]].error_message.present)

\* C4's case: three models were dispatched, the first one's transport call
\* raised, and the other two are done.
C4_Witness ==
    /\ Returned
    /\ Len(models) = 3
    /\ wout[1] \in {"api", "exc"}
    /\ sd[1].status = "error"
    /\ sd[2].status = "done"
    /\ sd[3].status = "done"

\* C5: no reader of the status collection observes a torn record: a
\* terminal status whose response or error message is not written yet.
C5_NoTornRead == ~torn

\* Worker w has written to its record.
HasWritten(w) == wpc[w] \notin {"idle", "init", "to_stream"}

\* C6: from the moment a model starts streaming the values written to
\* elapsed_time never decrease, and elapsed_time does not change once the
\* terminal transition is complete.
C6_ElapsedMonotone ==
    [][\A m \in DOMAIN sd :
         /\ sd[m].status # "waiting" =>
              sd'[m].elapsed_time >= sd[m].elapsed_time
         /\ (lock = 0 /\ sd[m].status \in {"done", "error"}) =>
              sd'[m].elapsed_time = sd[m].elapsed_time]_vars

\* C7: one worker is launched per model, and no two workers write the same
\* ModelStatus.
C7_OneWriterPerRecord ==
    /\ mpc # "submit" => Len(models) = Cardinality(DOMAIN sd)
    /\ \A v, w \in Workers :
         (v # w /\ HasWritten(v) /\ HasWritten(w)) => RecOf(v) # RecOf(w)

\* C8's case: the engine has returned after a failed and a successful call.
C8_Witness ==
    /\ Returned
    /\ Len(models) = 2
    /\ wout[1] = "exc"
    /\ wout[2] = "ok"
    /\ \A w \in Workers : wpc[w] = "finished"


\* ------------------------------------------------------------ render_stl

\* The characters of the renderer's output: whitespace and anything else.
Chars == {" ", "e"}

\* The texts the renderer writes to stderr or stdout.
Texts == UNION { [1..n -> Chars] : n \in 0..MaxStrLen }

\* The timeout passed to render_stl, in clock units.
RenderTimeout == 1

\* str.strip(): leading and trailing whitespace removed.
RECURSIVE Strip(_)
Strip(t) ==
    IF t = <<>> THEN <<>>
    ELSE IF t[1] = " " THEN Strip(Tail(t))
    ELSE IF t[Len(t)] = " " THEN Strip(SubSeq(t, 1, Len(t) - 1))
    ELSE t

\* str(n) for the exit codes of the model.
Str(n) == CASE n = 0 -> "0" [] n = 1 -> "1" [] n = 2 -> "2" [] OTHER -> "n"

\* What subprocess.run and stl_path.exists() can do: the renderer exits
\* with a code, some output and with or without the output file; the
\* executable is not found; or the timeout expires (not before
\* RenderTimeout has passed).
RenderInputs ==
    { [kind |-> "exit", returncode |-> rc, exists |-> ex,
       stderr |-> e, stdout |-> o, dur |-> d] :
         rc \in 0..MaxExit, ex \in BOOLEAN, e \in Texts, o \in Texts,
         d \in 0..MaxDur }
    \cup
    { [kind |-> k, returncode |-> 0, exists |-> ex,
       stderr |-> <<>>, stdout |-> <<>>, dur |-> d] :
         k \in {"notfound"}, ex \in BOOLEAN, d \in 0..MaxDur }
    \cup
    { [kind |-> k, returncode |-> 0, exists |-> ex,
       stderr |-> <<>>, stdout |-> <<>>, dur |-> d] :
         k \in {"timeout"}, ex \in BOOLEAN, d \in RenderTimeout..MaxDur }

\* A success test that trusts the exit code alone.
RenderSucceededMut(in) == in.returncode = 0

\* line 74: result.returncode == 0 and stl_path.exists()
RenderSucceeded(in) == in.returncode = 0 /\ in.exists

\* An error text without the generic fallback.
ErrorTextMut(in) ==
    IF in.stderr # <<>> THEN Strip(in.stderr) ELSE Strip(in.stdout)

\* lines 84-86: stderr.strip() if stderr else stdout.strip(), and the
\* generic message when that is empty
ErrorText(in) ==
    LET error_msg == IF in.stderr # <<>> THEN Strip(in.stderr)
                     ELSE Strip(in.stdout)
    IN IF error_msg = <<>>
       THEN <<"OpenSCAD exited with code ", Str(in.returncode)>>
       ELSE error_msg

\* A render_stl that treats an expired timeout like an exit of the renderer.
render_stlMut(in) ==
    IF in.kind = "notfound"
    THEN [success |-> FALSE, scad_path |-> "attempt.scad",
          stl_path |-> None,
          error_message |->
              Some(<<"OpenSCAD executable not found: ", "openscad">>),
          render_time |-> in.dur]
    ELSE IF RenderSucceeded(in)
         THEN [success |-> TRUE, scad_path |-> "attempt.scad",
               stl_path |-> Some("attempt.stl"), error_message |-> None,
               render_time |-> in.dur]
         ELSE [success |-> FALSE, scad_path |-> "attempt.scad",
               stl_path |-> None, error_message |-> Some(ErrorText(in)),
               render_time |-> in.dur]

\* render_stl(scad_path, openscad_path, timeout): the RenderResult of each
\* return path
render_stl(in) ==
    IF in.kind = "exit"
    THEN IF RenderSucceeded(in)
         THEN [success |-> TRUE, scad_path |-> "attempt.scad",
               stl_path |-> Some("attempt.stl"), error_message |-> None,
               render_time |-> in.dur]
         ELSE [success |-> FALSE, scad_path |-> "attempt.scad",
               stl_path |-> None, error_message |-> Some(ErrorText(in)),
               render_time |-> in.dur]
    ELSE IF in.kind = "notfound"
    THEN [success |-> FALSE, scad_path |-> "attempt.scad",
          stl_path |-> None,
          error_message |->
              Some(<<"OpenSCAD executable not found: ", "openscad">>),
          render_time |-> in.dur]
    ELSE [success |-> FALSE, scad_path |-> "attempt.scad",
          stl_path |-> None,
          error_message |->
              Some(<<"Rendering timed out after ", Str(RenderTimeout),
                     " seconds">>),
          render_time |-> in.dur]

InitRender ==
    /\ InitPrompt(<<1>>)
    /\ rin \in RenderInputs
    /\ rres = None
    /\ BenchIdle
    /\ StreamIdle
    /\ CallIdle

\* One call of render_stl.
RenderStl ==
    /\ ~rres.present
    /\ rres' = Some(render_stl(rin))
    /\ UNCHANGED <<pvars, rin, bvars, svars, fvars>>

NextRender == RenderStl

SpecRender == InitRender /\ [][NextRender]_vars

\* ----------------------------------------------------- render_stl: claims

\* C9: render_stl reports success exactly when the renderer exited with
\* code zero and the output file exists afterwards; exit code zero without
\* the file gives success = false and a non-empty error message.
C9_SuccessIff ==
    rres.present =>
      /\ rres.val.success <=>
           (rin.kind = "exit" /\ rin.returncode = 0 /\ rin.exists)
      /\ (rin.kind = "exit" /\ rin.returncode = 0 /\ ~rin.exists) =>
           /\ ~rres.val.success
           /\ rres.val.error_message.present
           /\ rres.val.error_message.val # <<>>

\* C9's case: the renderer exited with code zero, silently, and left no
\* output file.
C9_Witness ==
    /\ rres.present
    /\ rin.kind = "exit"
    /\ rin.returncode = 0
    /\ ~rin.exists
    /\ rin.stderr = <<>>
    /\ rin.stdout = <<>>
    /\ ~rres.val.success

\* C10: in every RenderResult, stl_path is present iff success, and
\* error_message is present, and then non-empty, iff not success.
C10_ResultShape ==
    rres.present =>
      /\ rres.val.stl_path.present <=> rres.val.success
      /\ rres.val.error_message.present <=> ~rres.val.success
      /\ rres.val.error_message.present =>
           rres.val.error_message.val # <<>>

\* C10's case: a failed render whose stderr holds only whitespace.
C10_Witness ==
    /\ rres.present
    /\ rin.kind = "exit"
    /\ rin.returncode = 1
    /\ rin.stderr = <<" ">>
    /\ rin.stdout = <<>>
    /\ ~rres.val.success
    /\ ~rres.val.stl_path.present


\* ------------------------------------------------ render stage of a run

\* What run_models_parallel can hand back for one model: a terminal status
\* and a response whose content holds code, or holds none; a response left
\* beside an "error" status is the trace of a repeated identifier.
PromptOutcomes ==
    { [status |-> "done", response |-> Some("code")],
      [status |-> "done", response |-> Some("nocode")],
      [status |-> "error", response |-> None],
      [status |-> "error", response |-> Some("code")] }

\* What the renderer subprocess of a pool task can do.
PoolInputs ==
    { [kind |-> "exit", returncode |-> 0, exists |-> TRUE,
       stderr |-> <<>>, stdout |-> <<>>, dur |-> 1],
      [kind |-> "exit", returncode |-> 1, exists |-> FALSE,
       stderr |-> <<"e">>, stdout |-> <<>>, dur |-> 1],
      [kind |-> "exit", returncode |-> 0, exists |-> FALSE,
       stderr |-> <<>>, stdout |-> <<>>, dur |-> 1],
      [kind |-> "notfound", returncode |-> 0, exists |-> FALSE,
       stderr |-> <<>>, stdout |-> <<>>, dur |-> 0] }
    \cup
    { [kind |-> "timeout", returncode |-> 0, exists |-> ex,
       stderr |-> <<>>, stdout |-> <<>>, dur |-> RenderTimeout] :
         ex \in BOOLEAN }

NoInput ==
    [kind |-> "exit", returncode |-> 0, exists |-> TRUE,
     stderr |-> <<>>, stdout |-> <<>>, dur |-> 0]

\* What a render task meets: nothing unusual, an OSError from write_text
\* or mkdir in save_scad ("persist"), or an OSError other than
\* FileNotFoundError from subprocess.run ("launch").
TaskEnvs ==
    { [fault |-> "none", in |-> i] : i \in PoolInputs }
    \cup { [fault |-> f, in |-> NoInput] : f \in {"persist", "launch"} }

NoEnv == [fault |-> "none", in |-> NoInput]

BenchModels == DOMAIN statuses
Tasks == 1..Len(render_tasks)

\* extract_code raises ValueError when the response carries no content.
ExtractRaises(response) == response.val = "nocode"

\* A render-task test that does not look at the status.
GetsRenderTaskMut(st) ==
    st.response.present /\ ~ExtractRaises(st.response)

\* lines 229-244: the model is given a render task
GetsRenderTask(st) ==
    /\ st.status = "done"
    /\ st.response.present
    /\ ~ExtractRaises(st.response)

\* lines 224-270: the BenchmarkResult stored before rendering
InitialResult(st) ==
    IF st.status = "done" /\ st.response.present
    THEN IF ExtractRaises(st.response)
         THEN [api_success |-> FALSE, render_success |-> FALSE,
               error_message |-> Some(<<"Failed to extract code: ">>),
               render_time |-> None]
         ELSE [api_success |-> TRUE, render_success |-> FALSE,
               error_message |-> None, render_time |-> None]
    ELSE IF st.status = "error"
    THEN [api_success |-> FALSE, render_success |-> FALSE,
          error_message |-> Some(<<"API error">>), render_time |-> None]
    ELSE [api_success |-> FALSE, render_success |-> FALSE,
          error_message |-> None, render_time |-> None]

\* lines 219-260: the output directory, emptied by get_model_output_dir,
\* after params.json, response.json and error.log were written
InitialFiles(st) ==
    {"params.json"}
    \cup (IF st.status = "done" /\ st.response.present
          THEN {"response.json"}
          ELSE IF st.status = "error" THEN {"error.log"} ELSE {})

RECURSIVE TasksFrom(_, _)
TasksFrom(sts, m) ==
    IF m > Len(sts) THEN <<>>
    ELSE IF GetsRenderTask(sts[m])
         THEN <<m>> \o TasksFrom(sts, m + 1)
         ELSE TasksFrom(sts, m + 1)

InitBench ==
    /\ InitPrompt(<<1>>)
    /\ RenderIdle
    /\ StreamIdle
    /\ CallIdle
    /\ \E n \in 1..MaxBench :
         /\ statuses \in [1..n -> PromptOutcomes]
         /\ tenv \in [1..n -> TaskEnvs \cup {NoEnv}]
         /\ \A m \in 1..n :
              IF GetsRenderTask(statuses[m])
              THEN tenv[m] \in TaskEnvs
              ELSE tenv[m] = NoEnv
    /\ max_workers \in 1..MaxPool
    /\ bpc = "prepare"
    /\ render_tasks = <<>>
    /\ model_results = <<>>
    /\ files = [m \in DOMAIN statuses |-> {}]
    /\ nsub = 0
    /\ tpc = <<>>
    /\ fut = <<>>
    /\ yielded = {}
    /\ results = <<>>
    /\ cur = 0
    /\ calls = [m \in DOMAIN statuses |-> <<>>]
    /\ exc = None
    /\ doneAtExc = {}

\* run_benchmark, lines 214-273: one pass over model_statuses.
B_prepare ==
    /\ bpc = "prepare"
    /\ render_tasks' = TasksFrom(statuses, 1)
    /\ model_results' = [m \in BenchModels |-> InitialResult(statuses[m])]
    /\ files' = [m \in BenchModels |-> InitialFiles(statuses[m])]
    /\ tpc' = [t \in 1..Len(render_tasks') |-> "new"]
    /\ fut' = [t \in 1..Len(render_tasks') |-> None]
    /\ bpc' = IF render_tasks' = <<>> THEN "done" ELSE "submit"
    /\ UNCHANGED <<pvars, rvars, svars, fvars, statuses, tenv, max_workers, nsub, yielded,
                   results, cur, calls, exc, doneAtExc>>

\* process_renders_parallel, lines 162-166: executor.submit for the next
\* entry of render_tasks.
P_submit ==
    /\ bpc = "submit"
    /\ nsub' = nsub + 1
    /\ tpc' = [tpc EXCEPT ![nsub + 1] = "queued"]
    /\ bpc' = IF nsub + 1 = Len(render_tasks) THEN "wait" ELSE "submit"
    /\ UNCHANGED <<pvars, rvars, svars, fvars, statuses, tenv, max_workers, render_tasks,
                   model_results, files, fut, yielded, results, cur, calls,
                   exc, doneAtExc>>

\* The tasks a pool thread is executing.
Busy == { t \in Tasks : tpc[t] \in {"saving", "rendering"} }

\* A pool that starts a thread for every task.
PoolHasThreadMut == TRUE

\* ThreadPoolExecutor(max_workers=max_workers): a thread is free, or may
\* still be started
PoolHasThread == Cardinality(Busy) < max_workers

\* Pool threads that take no new work item while a callback is executing.
T_startMut(t) ==
    /\ bpc \notin {"callback", "errorlog"}
    /\ tpc[t] = "queued"
    /\ \A u \in Tasks : u < t => tpc[u] # "queued"
    /\ PoolHasThread
    /\ tpc' = [tpc EXCEPT ![t] = "saving"]
    /\ UNCHANGED <<pvars, rvars, svars, fvars, statuses, tenv, max_workers, bpc,
                   render_tasks, model_results, files, nsub, fut, yielded,
                   results, cur, calls, exc, doneAtExc>>

\* A pool thread takes the oldest queued work item.
T_start(t) ==
    /\ tpc[t] = "queued"
    /\ \A u \in Tasks : u < t => tpc[u] # "queued"
    /\ PoolHasThread
    /\ tpc' = [tpc EXCEPT ![t] = "saving"]
    /\ UNCHANGED <<pvars, rvars, svars, fvars, statuses, tenv, max_workers, bpc,
                   render_tasks, model_results, files, nsub, fut, yielded,
                   results, cur, calls, exc, doneAtExc>>

\* render_task, line 158: save_scad writes attempt.scad, or raises; then
\* render_stl starts the subprocess.
T_save(t) ==
    /\ tpc[t] = "saving"
    /\ IF tenv[render_tasks[t]].fault = "persist"
       THEN /\ tpc' = [tpc EXCEPT ![t] = "raised"]
            /\ UNCHANGED files
       ELSE /\ tpc' = [tpc EXCEPT ![t] = "rendering"]
            /\ files' = [files EXCEPT ![render_tasks[t]] =
                             @ \cup {"attempt.scad"}]
    /\ UNCHANGED <<pvars, rvars, svars, fvars, statuses, tenv, max_workers, bpc,
                   render_tasks, model_results, nsub, fut, yielded, results,
                   cur, calls, exc, doneAtExc>>

\* render_task, lines 159-160: subprocess.run ends and render_stl returns
\* its RenderResult, or an exception render_stl does not catch leaves the
\* task.
T_render(t) ==
    /\ tpc[t] = "rendering"
    /\ IF tenv[render_tasks[t]].fault = "launch"
       THEN /\ tpc' = [tpc EXCEPT ![t] = "raised"]
            /\ UNCHANGED <<fut, files>>
       ELSE /\ tpc' = [tpc EXCEPT ![t] = "done"]
            /\ fut' = [fut EXCEPT ![t] =
                           Some(render_stl(tenv[render_tasks[t]].in))]
            /\ files' = [files EXCEPT ![render_tasks[t]] =
                             IF tenv[render_tasks[t]].in.exists
                             THEN @ \cup {"attempt.stl"} ELSE @]
    /\ UNCHANGED <<pvars, rvars, svars, fvars, statuses, tenv, max_workers, bpc,
                   render_tasks, model_results, nsub, yielded, results, cur,
                   calls, exc, doneAtExc>>

\* An as_completed that yields futures before they finish.
FutureDoneMut(t) == TRUE

\* as_completed yields a future once it has a result or an exception.
FutureDone(t) == tpc[t] \in {"done", "raised"}

\* What the exception handler of run_benchmark is bound to.
Raise ==
    /\ exc' = Some("OSError")
    /\ doneAtExc' = { u \in Tasks : tpc[u] = "done" }
    /\ bpc' = "unwind"

\* lines 168-170: as_completed yields a future; future.result() returns
\* the task's (model, result), stored in results (as the outcome the
\* future holds), or re-raises what the task raised.
P_yield(t) ==
    /\ bpc = "wait"
    /\ t \notin yielded
    /\ FutureDone(t)
    /\ yielded' = yielded \cup {t}
    /\ IF tpc[t] = "raised"
       THEN /\ Raise
            /\ UNCHANGED <<results, cur>>
       ELSE /\ results' = (render_tasks[t] :> fut[t]) @@ results
            /\ cur' = t
            /\ bpc' = "callback"
            /\ UNCHANGED <<exc, doneAtExc>>
    /\ UNCHANGED <<pvars, rvars, svars, fvars, statuses, tenv, max_workers, render_tasks,
                   model_results, files, nsub, tpc, fut, calls>>

\* lines 171-172 and on_render_complete, lines 278-316: the callback is
\* entered with (model, result) and updates the model's BenchmarkResult.
CB_update ==
    /\ bpc = "callback"
    /\ LET m == render_tasks[cur]
           r == results[m].val
       IN /\ calls' = [calls EXCEPT ![m] = Append(@, r)]
          /\ model_results' =
               [model_results EXCEPT
                  ![m] = [@ EXCEPT !.render_success = r.success,
                                   !.render_time = Some(r.render_time),
                                   !.error_message =
                                       IF r.success THEN @
                                       ELSE r.error_message]]
          /\ IF r.success
             THEN /\ bpc' = "wait"
                  /\ cur' = 0
             ELSE /\ bpc' = "errorlog"
                  /\ cur' = cur
    /\ UNCHANGED <<pvars, rvars, svars, fvars, statuses, tenv, max_workers, render_tasks,
                   files, nsub, tpc, fut, yielded, results, exc, doneAtExc>>

\* on_render_complete, lines 319-326: get_model_output_dir removes the
\* model's output directory and creates it again, then render_error.log is
\* written; the write may raise OSError.
CB_errorlog ==
    /\ bpc = "errorlog"
    /\ \E ok \in BOOLEAN :
         IF ok
         THEN /\ files' = [files EXCEPT ![render_tasks[cur]] =
                               {"render_error.log"}]
              /\ bpc' = "wait"
              /\ UNCHANGED <<exc, doneAtExc>>
         ELSE /\ files' = [files EXCEPT ![render_tasks[cur]] = {}]
              /\ Raise
    /\ cur' = 0
    /\ UNCHANGED <<pvars, rvars, svars, fvars, statuses, tenv, max_workers, render_tasks,
                   model_results, nsub, tpc, fut, yielded, results, calls>>

\* lines 162-174: every future has been yielded; the executor shuts down
\* and results is returned to run_benchmark.
P_return ==
    /\ bpc = "wait"
    /\ yielded = Tasks
    /\ bpc' = "done"
    /\ UNCHANGED <<pvars, rvars, svars, fvars, statuses, tenv, max_workers, render_tasks,
                   model_results, files, nsub, tpc, fut, yielded, results,
                   cur, calls, exc, doneAtExc>>

\* run_benchmark, lines 339-342: the update made by the exception handler
ExceptUpdate(mr) ==
    [m \in DOMAIN mr |->
        IF /\ \E t \in Tasks : render_tasks[t] = m
           /\ ~mr[m].render_success
           /\ ~mr[m].error_message.present
        THEN [mr[m] EXCEPT !.error_message =
                  Some(<<"Unexpected render error: ", exc.val>>)]
        ELSE mr[m]]

\* The exception leaves the with block, whose exit waits for every
\* submitted task to end (shutdown(wait=True)), and reaches the handler of
\* run_benchmark, lines 336-342.
B_except ==
    /\ bpc = "unwind"
    /\ \A t \in Tasks : FutureDone(t)
    /\ model_results' = ExceptUpdate(model_results)
    /\ bpc' = "done"
    /\ UNCHANGED <<pvars, rvars, svars, fvars, statuses, tenv, max_workers, render_tasks,
                   files, nsub, tpc, fut, yielded, results, cur, calls, exc,
                   doneAtExc>>

NextBench ==
    \/ B_prepare
    \/ P_submit
    \/ \E t \in Tasks : T_start(t)
    \/ \E t \in Tasks : T_save(t)
    \/ \E t \in Tasks : T_render(t)
    \/ \E t \in Tasks : P_yield(t)
    \/ CB_update
    \/ CB_errorlog
    \/ P_return
    \/ B_except

SpecBench == InitBench /\ [][NextBench]_vars


\* ------------------------------------------------- render stage: claims

\* C11: at no moment are more than max_workers render tasks being executed
\* by the pool, whatever the number of tasks.
C11_PoolCap ==
    Cardinality({ t \in Tasks : tpc[t] \in {"saving", "rendering"} })
        <= max_workers

\* C11's case: a pool of one thread runs a renderer while a second task
\* waits in the queue.
C11_Witness ==
    /\ max_workers = 1
    /\ Len(render_tasks) = 2
    /\ tpc[1] = "rendering"
    /\ tpc[2] = "queued"

\* C12: when the render stage has ended, on_complete has been called
\* exactly once for every submitted task, with that task's model and
\* RenderResult; and never more than once before.
C12_CallbackOncePerTask ==
    /\ \A m \in DOMAIN calls : Len(calls[m]) <= 1
    /\ bpc = "done" =>
         \A t \in Tasks :
            /\ Len(calls[render_tasks[t]]) = 1
            /\ fut[t].present
            /\ calls[render_tasks[t]][1] = fut[t].val

\* C13: on_complete is never called for a model before that model's render
\* task has finished, and the completion being handled is that of a
\* finished task.
C13_Incremental ==
    /\ \A m \in DOMAIN calls :
         calls[m] # <<>> =>
            \E t \in Tasks : render_tasks[t] = m /\ tpc[t] = "done"
    /\ cur # 0 => tpc[cur] = "done"

\* C13's case: the first task's completion has been notified while the
\* renderer of the second is still running.
C13_Witness ==
    /\ Len(render_tasks) = 2
    /\ calls[render_tasks[1]] # <<>>
    /\ tpc[2] = "rendering"
    /\ calls[render_tasks[2]] = <<>>

\* C14: a render that runs into the timeout ends with success = false, no
\* stl_path, a message that names the timeout and a render_time of at
\* least the timeout; every other task's result is the one its own
\* renderer run gives, and every task has ended when the stage ends.
C14_TimeoutContained ==
    /\ \A t \in Tasks :
         fut[t].present =>
            IF tenv[render_tasks[t]].in.kind = "timeout"
            THEN /\ ~fut[t].val.success
                 /\ ~fut[t].val.stl_path.present
                 /\ fut[t].val.error_message.present
                 /\ fut[t].val.error_message.val[1]
                        = "Rendering timed out after "
                 /\ fut[t].val.render_time >= RenderTimeout
            ELSE /\ fut[t].val.success <=>
                      /\ tenv[render_tasks[t]].in.kind = "exit"
                      /\ tenv[render_tasks[t]].in.returncode = 0
                      /\ tenv[render_tasks[t]].in.exists
                 /\ fut[t].val.render_time = tenv[render_tasks[t]].in.dur
    /\ bpc = "done" => \A t \in Tasks : tpc[t] \in {"done", "raised"}

\* C14's case: the first task has timed out, leaving a partial output
\* file, and the second has rendered successfully after it.
C14_Witness ==
    /\ Len(render_tasks) = 2
    /\ max_workers = 1
    /\ tenv[render_tasks[1]].in.kind = "timeout"
    /\ tenv[render_tasks[1]].in.exists
    /\ fut[1].present
    /\ fut[2].present
    /\ fut[2].val.success
    /\ bpc = "done"

\* C15: after an exception has left the pool driver, the BenchmarkResult
\* of every task that had finished rendering when it was raised carries
\* that task's success flag, render time and error message, and every
\* other task that was never notified has no render_time and the
\* handler's message, unlike a failed render.
C15_CompletedCollected ==
    (bpc = "done" /\ exc.present) =>
      /\ \A t \in doneAtExc :
            /\ model_results[render_tasks[t]].render_success
                  = fut[t].val.success
            /\ model_results[render_tasks[t]].render_time
                  = Some(fut[t].val.render_time)
            /\ ~fut[t].val.success =>
                  model_results[render_tasks[t]].error_message
                      = fut[t].val.error_message
      /\ \A t \in Tasks \ doneAtExc :
            calls[render_tasks[t]] = <<>> =>
               /\ ~model_results[render_tasks[t]].render_success
               /\ ~model_results[render_tasks[t]].render_time.present
               /\ model_results[render_tasks[t]].error_message.present
               /\ model_results[render_tasks[t]].error_message.val[1]
                     = "Unexpected render error: "

\* C16: a render task never ends by raising: whatever fails inside it, its
\* future holds a RenderResult, with success = false unless the renderer
\* exited with code zero and left the output file.
C16_FailuresCaught ==
    \A t \in Tasks :
       /\ tpc[t] # "raised"
       /\ tpc[t] = "done" => fut[t].present
       /\ (fut[t].present /\ fut[t].val.success) =>
             /\ tenv[render_tasks[t]].fault = "none"
             /\ tenv[render_tasks[t]].in.kind = "exit"
             /\ tenv[render_tasks[t]].in.returncode = 0
             /\ tenv[render_tasks[t]].in.exists

\* C17: attempt.scad is in the model's output directory while its renderer
\* runs, and is still there once the task's completion has been handled,
\* whether the render succeeded or failed.
C17_ScadKept ==
    \A t \in Tasks :
       /\ tpc[t] = "rendering" => "attempt.scad" \in files[render_tasks[t]]
       /\ (calls[render_tasks[t]] # <<>> /\ cur # t) =>
             "attempt.scad" \in files[render_tasks[t]]

\* C18: only a model whose prompt status is "done" and whose code was
\* extracted has a render task; a model whose prompt ended in "error" or
\* whose extraction failed has none, is never notified of a render, and
\* keeps render_success = false.
C18_CausalOrder ==
    bpc # "prepare" =>
      \A m \in DOMAIN statuses :
         /\ (\E t \in Tasks : render_tasks[t] = m) =>
               /\ statuses[m].status = "done"
               /\ statuses[m].response.present
               /\ statuses[m].response.val = "code"
         /\ (\/ statuses[m].status = "error"
             \/ (statuses[m].response.present
                   /\ statuses[m].response.val = "nocode")) =>
               /\ \A t \in Tasks : render_tasks[t] # m
               /\ calls[m] = <<>>
               /\ ~model_results[m].render_success
               /\ m \notin DOMAIN results

\* C18's case: the run has ended; the first model's prompt failed, leaving
\* a response behind, and the second model was rendered successfully.
C18_Witness ==
    /\ bpc = "done"
    /\ Len(statuses) = 2
    /\ statuses[1].status = "error"
    /\ statuses[1].response.present
    /\ ~model_results[1].render_success
    /\ model_results[2].render_success
    /\ calls[2] # <<>>


\* ------------------------------------------------ send_prompt_streaming

\* The stream text is a sequence of symbols: "\n", and runs of characters
\* without a newline, each standing for one kind of line body:
\*   "dA"  data: {"id": "i1", "model": "m1", choices[0].delta.content "a"}
\*   "dB"  data: {"id": "i2", delta.content "b", finish_reason "stop"}
\*   "dR"  data: {delta.reasoning "r"}
\*   "dF"  data: {delta.content "", finish_reason "length"}
\*   "dX"  data: followed by text that is not JSON
\*   "dN"  data: null  (JSON, but not an object)
\*   "dE"  data: {"error": {"code": "content_filter", "message": ...}}
\*   "dD"  data: [DONE]
\*   "cC"  : OPENROUTER PROCESSING
\*   " "   whitespace
NL == "\n"
ObjectBodies == {"dA", "dB", "dR", "dF", "dE"}
DataBodies == ObjectBodies \cup {"dX", "dN", "dD"}
Bodies == DataBodies \cup {"cC", " "}

\* json.loads(data) for the object bodies
Payload(b) ==
    CASE b = "dA" -> [id |-> Some("i1"), model |-> Some("m1"),
                      content |-> <<"a">>, reasoning |-> <<>>,
                      finish |-> None]
      [] b = "dB" -> [id |-> Some("i2"), model |-> None,
                      content |-> <<"b">>, reasoning |-> <<>>,
                      finish |-> Some("stop")]
      [] b = "dR" -> [id |-> None, model |-> None,
                      content |-> <<>>, reasoning |-> <<"r">>,
                      finish |-> None]
      [] b = "dF" -> [id |-> None, model |-> None,
                      content |-> <<>>, reasoning |-> <<>>,
                      finish |-> Some("length")]
      [] OTHER    -> [id |-> None, model |-> None,
                      content |-> <<>>, reasoning |-> <<>>,
                      finish |-> None]

\* The lines a server may send: one body, or nothing.
LineChoices == { <<b>> : b \in Bodies } \cup { <<>> }
LineSeqs == UNION { [1..n -> LineChoices] : n \in 0..MaxLines }

\* The text of the stream: every line followed by "\n".
RECURSIVE TextOf(_)
TextOf(ls) ==
    IF ls = <<>> THEN <<>> ELSE Head(ls) \o <<NL>> \o TextOf(Tail(ls))

\* The text cut after the positions in cuts, from position i on.
RECURSIVE Split(_, _, _)
Split(text, cuts, i) ==
    IF i > Len(text) THEN <<>>
    ELSE IF { c \in cuts : c >= i } = {}
         THEN << SubSeq(text, i, Len(text)) >>
         ELSE LET c == CHOOSE x \in { y \in cuts : y >= i } :
                          \A z \in { y \in cuts : y >= i } : x <= z
              IN << SubSeq(text, i, c) >> \o Split(text, cuts, c + 1)

\* The ways iter_content can deliver a text in non-empty chunks.
Chunkings(text) ==
    { Split(text, cuts, 1) :
        cuts \in { c \in SUBSET (1..(Len(text) - 1)) :
                      Cardinality(c) < MaxChunks } }

InitStream ==
    /\ InitPrompt(<<1>>)
    /\ RenderIdle
    /\ BenchIdle
    /\ CallIdle
    /\ sse_lines \in LineSeqs
    /\ stream \in Chunkings(TextOf(sse_lines))
    /\ sidx = 0
    /\ buffer = <<>>
    /\ accumulated_content = <<>>
    /\ accumulated_reasoning = <<>>
    /\ finish_reason = None
    /\ response_id = None
    /\ response_model = None
    /\ activity = 0
    /\ spc = "streaming"
    /\ reconstructed_response = None

\* buffer.find('\n'), counted from 1; 0 when there is none
RECURSIVE Find(_, _)
Find(buf, i) ==
    IF i > Len(buf) THEN 0
    ELSE IF buf[i] = NL THEN i ELSE Find(buf, i + 1)

\* A parser that lets JSONDecodeError leave the loop.
LineKindMut(line) ==
    IF line = <<>> THEN "empty"
    ELSE IF line[1] = "cC" THEN "comment"
    ELSE IF line[1] \notin DataBodies THEN "other"
    ELSE IF line = <<"dD">> THEN "done"
    ELSE IF Len(line) > 1 \/ line[1] = "dX" THEN "raises"
    ELSE IF line[1] = "dN" THEN "raises"
    ELSE "object"

\* lines 264-318: what the loop body makes of a stripped line. Text after
\* a body makes json.loads raise JSONDecodeError, as does "dX"; "dN" is
\* decoded, and `"id" in data_obj` then raises TypeError.
LineKind(line) ==
    IF line = <<>> THEN "empty"
    ELSE IF line[1] = "cC" THEN "comment"
    ELSE IF line[1] \notin DataBodies THEN "other"
    ELSE IF line = <<"dD">> THEN "done"
    ELSE IF Len(line) > 1 \/ line[1] = "dX" THEN "malformed"
    ELSE IF line[1] = "dN" THEN "raises"
    ELSE "object"

\* A parser that keeps only the latest delta and the first finish reason.
ApplyChunkMut(st, obj) ==
    [st EXCEPT
       !.response_id = IF ~@.present /\ obj.id.present THEN obj.id ELSE @,
       !.response_model =
           IF ~@.present /\ obj.model.present THEN obj.model ELSE @,
       !.accumulated_content = IF obj.content # <<>> THEN obj.content ELSE @,
       !.accumulated_reasoning =
           IF obj.reasoning # <<>> THEN obj.reasoning ELSE @,
       !.activity = @ + (IF obj.content # <<>> THEN 1 ELSE 0)
                      + (IF obj.reasoning # <<>> THEN 1 ELSE 0),
       !.finish_reason = IF ~@.present /\ obj.finish.present
                         THEN obj.finish ELSE @]

\* lines 284-314: the effect of one decoded data object
ApplyChunk(st, obj) ==
    [st EXCEPT
       !.response_id = IF ~@.present /\ obj.id.present THEN obj.id ELSE @,
       !.response_model =
           IF ~@.present /\ obj.model.present THEN obj.model ELSE @,
       !.accumulated_content = @ \o obj.content,
       !.accumulated_reasoning = @ \o obj.reasoning,
       !.activity = @ + (IF obj.content # <<>> THEN 1 ELSE 0)
                      + (IF obj.reasoning # <<>> THEN 1 ELSE 0),
       !.finish_reason = IF obj.finish.present THEN obj.finish ELSE @]

\* lines 255-318: the while loop over the complete lines of the buffer;
\* the sentinel leaves the loop, an uncaught exception leaves the function.
RECURSIVE Drain(_)
Drain(st) ==
    LET line_end == Find(st.buffer, 1)
        line == Strip(SubSeq(st.buffer, 1, line_end - 1))
        rest == [st EXCEPT !.buffer =
                     SubSeq(st.buffer, line_end + 1, Len(st.buffer))]
    IN IF line_end = 0 THEN st
       ELSE IF LineKind(line) = "done" THEN rest
       ELSE IF LineKind(line) = "raises" THEN [rest EXCEPT !.raised = TRUE]
       ELSE IF LineKind(line) = "object"
            THEN Drain(ApplyChunk(rest, Payload(line[1])))
       ELSE Drain(rest)

\* lines 247-318: the next chunk is appended to the buffer and the
\* complete lines of the buffer are processed.
S_chunk ==
    /\ spc = "streaming"
    /\ sidx < Len(stream)
    /\ LET st == Drain([buffer |-> buffer \o stream[sidx + 1],
                        accumulated_content |-> accumulated_content,
                        accumulated_reasoning |-> accumulated_reasoning,
                        finish_reason |-> finish_reason,
                        response_id |-> response_id,
                        response_model |-> response_model,
                        activity |-> activity,
                        raised |-> FALSE])
       IN /\ buffer' = st.buffer
          /\ accumulated_content' = st.accumulated_content
          /\ accumulated_reasoning' = st.accumulated_reasoning
          /\ finish_reason' = st.finish_reason
          /\ response_id' = st.response_id
          /\ response_model' = st.response_model
          /\ activity' = st.activity
          /\ spc' = IF st.raised THEN "raised" ELSE "streaming"
    /\ sidx' = sidx + 1
    /\ UNCHANGED <<pvars, rvars, bvars, fvars, sse_lines, stream,
                   reconstructed_response>>

\* lines 330-350: the stream has ended; the response is put together.
S_return ==
    /\ spc = "streaming"
    /\ sidx = Len(stream)
    /\ reconstructed_response' =
         Some([id |-> IF response_id.present THEN response_id.val
                      ELSE "stream-response",
               model |-> IF response_model.present THEN response_model.val
                         ELSE "model",
               content |-> accumulated_content,
               reasoning |-> IF accumulated_reasoning # <<>>
                             THEN Some(accumulated_reasoning) ELSE None,
               finish_reason |-> IF finish_reason.present
                                 THEN finish_reason.val ELSE "stop"])
    /\ spc' = "returned"
    /\ UNCHANGED <<pvars, rvars, bvars, fvars, sse_lines, stream, sidx, buffer,
                   accumulated_content, accumulated_reasoning, finish_reason,
                   response_id, response_model, activity>>

NextStream ==
    \/ S_chunk
    \/ S_return

SpecStream == InitStream /\ [][NextStream]_vars

\* ------------------------------------------ send_prompt_streaming: claims

\* The content deltas of the data objects among the lines, in order.
RECURSIVE ContentDeltas(_)
ContentDeltas(ls) ==
    IF ls = <<>> THEN <<>>
    ELSE (IF Len(Head(ls)) = 1 /\ Head(ls)[1] \in ObjectBodies
          THEN Payload(Head(ls)[1]).content ELSE <<>>)
         \o ContentDeltas(Tail(ls))

\* The reasoning deltas of the data objects among the lines, in order.
RECURSIVE ReasoningDeltas(_)
ReasoningDeltas(ls) ==
    IF ls = <<>> THEN <<>>
    ELSE (IF Len(Head(ls)) = 1 /\ Head(ls)[1] \in ObjectBodies
          THEN Payload(Head(ls)[1]).reasoning ELSE <<>>)
         \o ReasoningDeltas(Tail(ls))

\* The finish reasons of the data objects among the lines, in order.
RECURSIVE FinishReasons(_)
FinishReasons(ls) ==
    IF ls = <<>> THEN <<>>
    ELSE (IF /\ Len(Head(ls)) = 1
             /\ Head(ls)[1] \in ObjectBodies
             /\ Payload(Head(ls)[1]).finish.present
          THEN << Payload(Head(ls)[1]).finish.val >> ELSE <<>>)
         \o FinishReasons(Tail(ls))

\* The sentinel is sent last, or not at all.
SentinelLast ==
    \A i \in 1..Len(sse_lines) : sse_lines[i] = <<"dD">> => i = Len(sse_lines)

\* Data objects and framing only, closed by the sentinel.
WellFormedStream ==
    /\ sse_lines # <<>>
    /\ sse_lines[Len(sse_lines)] = <<"dD">>
    /\ SentinelLast
    /\ \A i \in 1..(Len(sse_lines) - 1) :
          \/ sse_lines[i] \in { <<>>, <<" ">>, <<"cC">> }
          \/ sse_lines[i][1] \in ObjectBodies

\* C19: for a stream of well-formed data chunks closed by the sentinel,
\* the call returns a response whose content is the concatenation of the
\* content deltas in order, whose reasoning is the concatenation of the
\* reasoning deltas, present only if non-empty, and whose finish_reason is
\* the last one received ("stop" when none was).
C19_Reconstruction ==
    WellFormedStream =>
      /\ spc # "raised"
      /\ spc = "returned" =>
           /\ reconstructed_response.val.content = ContentDeltas(sse_lines)
           /\ reconstructed_response.val.reasoning =
                IF ReasoningDeltas(sse_lines) = <<>> THEN None
                ELSE Some(ReasoningDeltas(sse_lines))
           /\ reconstructed_response.val.finish_reason =
                IF FinishReasons(sse_lines) = <<>> THEN "stop"
                ELSE FinishReasons(sse_lines)[Len(FinishReasons(sse_lines))]

\* C19's case: deltas "a" and "b", the second with finish_reason "stop",
\* then the sentinel, received in two chunks the first of which ends
\* inside a line.
C19_Witness ==
    /\ spc = "returned"
    /\ sse_lines = << <<"dA">>, <<"dB">>, <<"dD">> >>
    /\ Len(stream) = 2
    /\ stream[1] = <<"dA">>
    /\ reconstructed_response.val.content = <<"a", "b">>
    /\ reconstructed_response.val.finish_reason = "stop"
    /\ ~reconstructed_response.val.reasoning.present

RECURSIVE BeforeSentinel(_)
BeforeSentinel(ls) ==
    IF ls = <<>> \/ Head(ls) = <<"dD">> THEN <<>>
    ELSE << Head(ls) >> \o BeforeSentinel(Tail(ls))

\* The non-empty content and reasoning deltas among the lines.
RECURSIVE ActivityCount(_)
ActivityCount(ls) ==
    IF ls = <<>> THEN 0
    ELSE (IF Len(Head(ls)) = 1 /\ Head(ls)[1] \in ObjectBodies
          THEN (IF Payload(Head(ls)[1]).content # <<>> THEN 1 ELSE 0)
               + (IF Payload(Head(ls)[1]).reasoning # <<>> THEN 1 ELSE 0)
          ELSE 0)
         + ActivityCount(Tail(ls))

\* C21: once the line carrying the sentinel has been read, no later line
\* adds to the content or the reasoning, changes the finish reason or
\* calls on_activity: what is returned was accumulated from the lines
\* before the sentinel alone.
C21_SentinelEnds ==
    (spc = "returned" /\ \E i \in 1..Len(sse_lines) : sse_lines[i] = <<"dD">>)
    =>
      /\ accumulated_content = ContentDeltas(BeforeSentinel(sse_lines))
      /\ accumulated_reasoning = ReasoningDeltas(BeforeSentinel(sse_lines))
      /\ reconstructed_response.val.finish_reason =
           IF FinishReasons(BeforeSentinel(sse_lines)) = <<>> THEN "stop"
           ELSE FinishReasons(BeforeSentinel(sse_lines))
                   [Len(FinishReasons(BeforeSentinel(sse_lines)))]
      /\ activity = ActivityCount(BeforeSentinel(sse_lines))

\* C23: when the provider reports an error in the body of the stream,
\* before any sentinel, the call does not return a response (which the
\* worker would record as "done"): it raises.
C23_StreamErrorRaises ==
    (\E i \in 1..Len(sse_lines) :
        /\ sse_lines[i] = <<"dE">>
        /\ \A j \in 1..(i - 1) : sse_lines[j] # <<"dD">>)
    => spc # "returned"

\* C30: the returned response and the number of on_activity calls are
\* those of the same text received as one chunk.
C30_ChunkingInvariant ==
    spc = "returned" =>
      LET one == Drain([buffer |-> TextOf(sse_lines),
                        accumulated_content |-> <<>>,
                        accumulated_reasoning |-> <<>>,
                        finish_reason |-> None,
                        response_id |-> None,
                        response_model |-> None,
                        activity |-> 0,
                        raised |-> FALSE])
      IN /\ accumulated_content = one.accumulated_content
         /\ accumulated_reasoning = one.accumulated_reasoning
         /\ finish_reason = one.finish_reason
         /\ response_id = one.response_id
         /\ response_model = one.response_model
         /\ activity = one.activity


\* ---------------------------------------------- render_stl: error text

\* C26: the error message of a failed renderer run is its stderr if that
\* is non-empty after trimming, otherwise its stdout if that is non-empty
\* after trimming, otherwise the generic message naming the exit code.
C26_ThreeStepFallback ==
    (rres.present /\ rin.kind = "exit" /\ ~(rin.returncode = 0 /\ rin.exists))
    =>
      rres.val.error_message =
        Some(IF Strip(rin.stderr) # <<>> THEN Strip(rin.stderr)
             ELSE IF Strip(rin.stdout) # <<>> THEN Strip(rin.stdout)
             ELSE <<"OpenSCAD exited with code ", Str(rin.returncode)>>)


\* ------------------------------------------- prompt stage: the lock

\* C27: the thread holding the status lock can always take the step that
\* leads to its release, and while some model is not terminal some step of
\* a worker or of the engine is enabled.
C27_NoLockDeadlock ==
    /\ lock # 0 =>
         ENABLED (\/ W_streaming2(lock)
                  \/ W_activity2(lock)
                  \/ W_terminal2(lock)
                  \/ W_terminal3(lock))
    /\ (\E m \in DOMAIN sd : sd[m].status \notin {"done", "error"}) =>
         ENABLED (Main \/ WorkerSteps)

\* C27's case: the first worker holds the lock in its terminal block while
\* the second waits to enter its first block.
C27_Witness ==
    /\ Len(models) = 2
    /\ lock = 1
    /\ sd[models[1]].status \in {"done", "error"}
    /\ wpc[2] = "to_stream"
    /\ models[1] # models[2]
    /\ sd[models[2]].status = "waiting"


\* ------------------------------------------ render stage: the callback

\* C28: on_complete is entered only by the thread that called
\* process_renders_parallel, and only when that thread is not inside an
\* earlier invocation; while an invocation is executing, every pool thread
\* can take its next step and a free pool thread can take a queued task.
C28_CallbackSerial ==
    /\ [][calls' # calls =>
            /\ bpc = "callback"
            /\ cur # 0
            /\ calls' = [calls EXCEPT ![render_tasks[cur]] =
                             Append(@, results[render_tasks[cur]].val)]]_vars
    /\ [](bpc \in {"callback", "errorlog"} =>
            \A t \in Tasks :
               /\ tpc[t] = "saving" => ENABLED T_save(t)
               /\ tpc[t] = "rendering" => ENABLED T_render(t)
               /\ (/\ tpc[t] = "queued"
                   /\ \A u \in Tasks : u < t => tpc[u] # "queued"
                   /\ Cardinality({ u \in Tasks :
                          tpc[u] \in {"saving", "rendering"} }) < max_workers)
                  => ENABLED T_start(t))

\* C28's case: in a pool of one thread the first render has failed and its
\* callback is writing render_error.log, while the second task, still
\* queued, can be started.
C28_Witness ==
    /\ bpc = "errorlog"
    /\ cur = 1
    /\ max_workers = 1
    /\ Len(render_tasks) = 2
    /\ tpc[2] = "queued"
    /\ ENABLED T_start(2)


\* ===========================================================================
\* openrouter.py: _handle_http_error and the transport errors of
\* send_prompt_streaming
\* ===========================================================================

SendModels == {"openai/gpt-4o", "x-ai/grok-4.1-fast:free"}

HttpStatuses == {200, 204, 301, 399, 400, 401, 403, 404, 429, 500}

\* The body of an error response: its raw text (response.text), what
\* response.json() gives for it (parsed: "invalid" when it raises ValueError,
\* else the type of the decoded value), the type of the value under the key
\* "error" and the string under error.message.
ResponseBodies ==
    { [text |-> "<html>Bad Gateway</html>", parsed |-> "invalid",
       error |-> "absent", message |-> None],
      [text |-> "{\"error\": {\"message\": \"Provider returned error\"}}",
       parsed |-> "object", error |-> "object",
       message |-> Some("Provider returned error")],
      [text |-> "{\"error\": {\"code\": 502}}", parsed |-> "object",
       error |-> "object", message |-> None],
      [text |-> "{\"detail\": \"Bad request\"}", parsed |-> "object",
       error |-> "absent", message |-> None],
      [text |-> "{\"error\": \"Internal Server Error\"}", parsed |-> "object",
       error |-> "string", message |-> None],
      [text |-> "{\"error\": null}", parsed |-> "object",
       error |-> "null", message |-> None],
      [text |-> "[\"Internal Server Error\"]", parsed |-> "array",
       error |-> "absent", message |-> None] }

NoBody == [text |-> "", parsed |-> "invalid", error |-> "absent", message |-> None]

\* What the request ends with before any line is read: a response, a
\* requests.Timeout or another requests.RequestException.
SendInputs ==
    { [call |-> "send", model |-> m, transport |-> "response",
       status_code |-> st, body |-> b] :
        m \in SendModels, st \in HttpStatuses, b \in ResponseBodies }
    \cup
    { [call |-> "send", model |-> m, transport |-> t,
       status_code |-> 0, body |-> NoBody] :
        m \in SendModels, t \in {"timeout", "failed"} }

NoError == [raised |-> "none", model |-> None, status_code |-> None, error_msg |-> ""]

\* An OpenRouterError (or subclass) with its model and status_code attributes.
ApiError(cls, msg, model, status) ==
    [raised |-> cls, model |-> Some(model), status_code |-> status, error_msg |-> msg]

\* dict.get on a value that is not a dict: AttributeError, which is not an
\* OpenRouterError and has no model attribute.
AttributeError ==
    [raised |-> "AttributeError", model |-> None, status_code |-> None, error_msg |-> ""]

\* error_data.get("error", {}).get("message", response.text) inside
\* try/except (ValueError, KeyError): Some(error_msg), or None when the
\* expression raises AttributeError.
ExtractMessage(body) ==
    IF body.parsed = "invalid" THEN Some(body.text)
    ELSE IF body.parsed # "object" THEN None
    ELSE IF body.error = "absent" THEN Some(body.text)
    ELSE IF body.error # "object" THEN None
    ELSE IF body.message # None THEN Some(body.message.val)
    ELSE Some(body.text)

handle_http_error(status_code, body, model) ==
    IF status_code = 401
    THEN ApiError("AuthenticationError", "Invalid API key or authentication failed",
                  model, Some(401))
    ELSE IF status_code = 429
    THEN ApiError("RateLimitError", "Rate limit exceeded. Please wait before retrying.",
                  model, Some(429))
    ELSE IF status_code = 404
    THEN ApiError("ModelNotFoundError", "Model not found", model, Some(404))
    ELSE IF status_code >= 400
    THEN LET error_msg == ExtractMessage(body) IN
         IF error_msg = None THEN AttributeError
         ELSE ApiError("OpenRouterError", error_msg.val, model, Some(status_code))
    ELSE NoError

\* What send_prompt_streaming raises before the first line is read.
SendOutcome(in) ==
    IF in.transport = "timeout"
    THEN ApiError("OpenRouterError", "Request timed out", in.model, None)
    ELSE IF in.transport = "failed"
    THEN ApiError("OpenRouterError", "Request failed", in.model, None)
    ELSE handle_http_error(in.status_code, in.body, in.model)

InitHttp ==
    /\ InitPrompt(<<1>>)
    /\ RenderIdle
    /\ BenchIdle
    /\ StreamIdle
    /\ fin \in SendInputs
    /\ fout = None

H_send ==
    /\ fin.call = "send"
    /\ fout = None
    /\ fout' = Some(SendOutcome(fin))
    /\ UNCHANGED <<pvars, rvars, bvars, svars, fin>>

NextHttp == H_send

SpecHttp == InitHttp /\ [][NextHttp]_vars

\* C22: 401, 429 and 404 raise their own errors, any other status >= 400 the
\* generic API error with the decoded error message if there is one and the
\* raw body otherwise, a status below 400 raises nothing, a timeout and any
\* other transport exception become the generic error, and every raised error
\* carries the model identifier.
C22_HttpErrorMapping ==
    (fout # None /\ fin.call = "send") =>
        LET e == fout.val IN
        /\ fin.transport \in {"timeout", "failed"} => e.raised = "OpenRouterError"
        /\ fin.transport = "response" =>
            /\ fin.status_code = 401 => e.raised = "AuthenticationError"
            /\ fin.status_code = 429 => e.raised = "RateLimitError"
            /\ fin.status_code = 404 => e.raised = "ModelNotFoundError"
            /\ (fin.status_code >= 400 /\ fin.status_code \notin {401, 404, 429}) =>
                 /\ e.raised = "OpenRouterError"
                 /\ e.error_msg = IF fin.body.message # None
                                  THEN fin.body.message.val
                                  ELSE fin.body.text
            /\ fin.status_code < 400 => e.raised = "none"
        /\ e.raised # "none" => e.model = Some(fin.model)

\* ===========================================================================
\* main.py: the exit code of main
\* ===========================================================================

\* The list run_benchmark returns: one BenchmarkResult per (challenge, model),
\* of which main reads render_success only; empty for a dry run or when there
\* is no challenge.
ResultLists ==
    UNION { [1..n -> [render_success : BOOLEAN]] : n \in 0..MaxResults }

\* main with `successful > 0` leaving with 0.
ExitCodeMut(result_list) ==
    IF result_list # <<>>
    THEN LET successful ==
             Cardinality({i \in DOMAIN result_list : result_list[i].render_success}) IN
         IF successful = Len(result_list) THEN 0
         ELSE IF successful > 0 THEN 0
         ELSE 2
    ELSE 0

\* The argument of the sys.exit that main reaches.
ExitCode(result_list) ==
    IF result_list # <<>>
    THEN LET successful ==
             Cardinality({i \in DOMAIN result_list : result_list[i].render_success}) IN
         IF successful = Len(result_list) THEN 0
         ELSE IF successful > 0 THEN 1
         ELSE 2
    ELSE 0

InitExit ==
    /\ InitPrompt(<<1>>)
    /\ RenderIdle
    /\ BenchIdle
    /\ StreamIdle
    /\ fin \in { [call |-> "main", results |-> r] : r \in ResultLists }
    /\ fout = None

M_exit ==
    /\ fin.call = "main"
    /\ fout = None
    /\ fout' = Some(ExitCode(fin.results))
    /\ UNCHANGED <<pvars, rvars, bvars, svars, fin>>

NextExit == M_exit

SpecExit == InitExit /\ [][NextExit]_vars

\* C24: when the run produced at least one result, the exit code is 0 iff every
\* result has render_success, 2 iff none has, and 1 otherwise.
C24_ExitCode ==
    (fout # None /\ fin.call = "main" /\ Len(fin.results) >= 1) =>
        LET all == \A i \in DOMAIN fin.results : fin.results[i].render_success
            none == \A i \in DOMAIN fin.results : ~fin.results[i].render_success
        IN /\ fout.val = 0 <=> all
           /\ fout.val = 2 <=> none
           /\ fout.val = 1 <=> (~all /\ ~none)

\* Three results, the first rendered and the last not: exit code 1.
C24_Witness ==
    /\ fout # None
    /\ fin.call = "main"
    /\ Len(fin.results) = 3
    /\ fin.results[1].render_success
    /\ ~fin.results[3].render_success
    /\ fout.val = 1

\* ===========================================================================
\* openrouter.py: _build_payload
\* ===========================================================================

\* The optional LLM parameters of ApiConfig that _build_payload copies.
ParamNames ==
    {"temperature", "top_p", "top_k", "frequency_penalty", "presence_penalty",
     "repetition_penalty", "min_p", "top_a", "seed", "max_tokens"}

\* ReasoningConfig objects.
ReasoningConfigs ==
    [enabled : BOOLEAN, effort : {None, Some("high")},
     max_tokens : {None, Some(1)}, exclude : BOOLEAN]

\* ApiConfig objects: every parameter unset or set to 0 (a value that is
\* falsy in Python), reasoning unset or a ReasoningConfig.
ApiConfigs ==
    { ps @@ ("reasoning" :> r) :
        ps \in [ParamNames -> {None, Some(0)}],
        r \in {None} \cup {Some(c) : c \in ReasoningConfigs} }

TextPart == [type |-> "text", text |-> "Make a box with a lid"]

ImagePart ==
    [type |-> "image_url", image_url |-> [url |-> "data:image/png;base64,iVBORw0KGgo="]]

\* Python values of the two types a prompt can have.
PyStr(s) == [type |-> "str", str |-> s, items |-> <<>>]

PyList(l) == [type |-> "list", str |-> "", items |-> l]

\* The user prompt: a plain string, or a list of content parts.
UserPrompts ==
    {PyStr("Make a box with a lid"), PyList(<<TextPart>>),
     PyList(<<TextPart, ImagePart>>)}

BuildInputs ==
    { [call |-> "build_payload", model |-> "openai/gpt-4o",
       system_prompt |-> PyStr("You write OpenSCAD."), user_prompt |-> u,
       api_config |-> a] : u \in UserPrompts, a \in ApiConfigs }

\* ReasoningConfig.is_enabled
is_enabled(c) == c.enabled \/ c.effort # None \/ c.max_tokens # None

\* ReasoningConfig.to_api_dict: the dictionary under "reasoning", None when
\* there is nothing to send.
to_api_dict(c) ==
    IF ~is_enabled(c) /\ ~c.exclude THEN None
    ELSE LET effort ==
                 IF c.enabled /\ c.effort = None /\ c.max_tokens = None
                 THEN [k \in {"effort"} |-> "medium"]
                 ELSE IF c.effort # None
                 THEN [k \in {"effort"} |-> c.effort.val]
                 ELSE <<>>
             max_tokens ==
                 IF c.max_tokens # None
                 THEN [k \in {"max_tokens"} |-> c.max_tokens.val]
                 ELSE <<>>
             exclude ==
                 IF c.exclude THEN [k \in {"exclude"} |-> TRUE] ELSE <<>>
             result == effort @@ max_tokens @@ exclude
         IN IF DOMAIN result # {} THEN Some(result) ELSE None

\* The test with the parameter's truthiness in place of `is not None`.
IsConfiguredMut(v) == v # None /\ v.val # 0

\* `api_config.<parameter> is not None`
IsConfigured(v) == v # None

build_payload(model, system_prompt, user_prompt, api_config) ==
    LET payload ==
            ("model" :> model) @@
            ("messages" :> << [role |-> "system", content |-> system_prompt],
                              [role |-> "user", content |-> user_prompt] >>)
        params ==
            [q \in {n \in ParamNames : IsConfigured(api_config[n])} |->
                api_config[q].val]
        reasoning ==
            IF api_config["reasoning"] # None
            THEN LET reasoning_dict == to_api_dict(api_config["reasoning"].val) IN
                 IF reasoning_dict # None
                 THEN ("reasoning" :> reasoning_dict.val)
                 ELSE <<>>
            ELSE <<>>
    IN payload @@ params @@ reasoning

InitPayload ==
    /\ InitPrompt(<<1>>)
    /\ RenderIdle
    /\ BenchIdle
    /\ StreamIdle
    /\ fin \in BuildInputs
    /\ fout = None

P_build ==
    /\ fin.call = "build_payload"
    /\ fout = None
    /\ fout' = Some(build_payload(fin.model, fin.system_prompt, fin.user_prompt,
                                  fin.api_config))
    /\ UNCHANGED <<pvars, rvars, bvars, svars, fin>>

NextPayload == P_build

SpecPayload == InitPayload /\ [][NextPayload]_vars

\* C25: the payload's model is the given model, its messages are the system
\* message with the system prompt followed by the user message whose content is
\* the given user prompt unchanged, and each optional sampling parameter is in
\* the payload, with its configured value, iff it is set in the configuration.
C25_PayloadShape ==
    (fout # None /\ fin.call = "build_payload") =>
        LET payload == fout.val IN
        /\ payload["model"] = fin.model
        /\ Len(payload["messages"]) = 2
        /\ payload["messages"][1] = [role |-> "system", content |-> fin.system_prompt]
        /\ payload["messages"][2] = [role |-> "user", content |-> fin.user_prompt]
        /\ \A q \in ParamNames :
              /\ q \in DOMAIN payload <=> fin.api_config[q] # None
              /\ q \in DOMAIN payload => payload[q] = fin.api_config[q].val

\* A prompt with a reference image, temperature 0 and top_p unset.
C25_Witness ==
    /\ fout # None
    /\ fin.call = "build_payload"
    /\ fin.user_prompt = PyList(<<TextPart, ImagePart>>)
    /\ fin.api_config["temperature"] = Some(0)
    /\ fin.api_config["top_p"] = None
    /\ "temperature" \in DOMAIN fout.val
    /\ "top_p" \notin DOMAIN fout.val
    /\ fout.val["messages"][2].content.type = "list"
    /\ fout.val["messages"][2].content.items[2] = ImagePart

\* ===========================================================================
\* challenges.py: sanitize_model_name and get_model_output_dir
\* ===========================================================================

\* The characters model identifiers are written with.
IdChars == {"a", "/", ":", "-"}

\* _validate_model_id: exactly one slash, provider and model name non-empty.
ValidModelId(id) ==
    /\ Cardinality({i \in DOMAIN id : id[i] = "/"}) = 1
    /\ id[1] # "/"
    /\ id[Len(id)] # "/"

ValidModelIds ==
    { id \in UNION { [1..n -> IdChars] : n \in 1..MaxIdLen } : ValidModelId(id) }

\* The results of generate_param_suffix for one API configuration: empty for
\* the default parameters.
ParamSuffixes == { <<>>, <<"t", "e", "m", "p", "0", "7">> }

RECURSIVE sanitize_model_name(_)
\* model.replace("/", "--").replace(":", "-")
sanitize_model_name(model) ==
    IF model = <<>> THEN <<>>
    ELSE (IF Head(model) = "/" THEN <<"-", "-">>
          ELSE IF Head(model) = ":" THEN <<"-">>
          ELSE <<Head(model)>>) \o sanitize_model_name(Tail(model))

\* The directory name under <challenge>/models that get_model_output_dir uses.
OutputDirName(model, suffix) ==
    IF suffix # <<>>
    THEN sanitize_model_name(model) \o <<"-", "-">> \o suffix
    ELSE sanitize_model_name(model)

\* The directories under <challenge>/models and the files in them.
EmptyFs == [dirs |-> {}, files |-> {}]

\* get_model_output_dir: an existing directory is removed with all its files,
\* then created again.
get_model_output_dir(fs, model, suffix) ==
    LET output_dir == OutputDirName(model, suffix) IN
    [output_dir |-> output_dir,
     fs |-> [dirs |-> fs.dirs \cup {output_dir},
             files |-> {f \in fs.files : f.dir # output_dir}]]

\* The model's artifact written into its output directory.
SaveArtifact(fs, dir, model) ==
    [fs EXCEPT !.files = @ \cup {[dir |-> dir, name |-> "attempt.scad", by |-> model]}]

InitDirs ==
    /\ InitPrompt(<<1>>)
    /\ RenderIdle
    /\ BenchIdle
    /\ StreamIdle
    /\ fin \in { [call |-> "dirs", first |-> a, second |-> b, suffix |-> x] :
                    a \in ValidModelIds, b \in ValidModelIds, x \in ParamSuffixes }
    /\ fout = None

\* The first model's output directory is created and its artifact saved.
D_first ==
    /\ fin.call = "dirs"
    /\ fout = None
    /\ LET r == get_model_output_dir(EmptyFs, fin.first, fin.suffix) IN
       fout' = Some([step |-> 1, first_dir |-> r.output_dir, second_dir |-> <<>>,
                     fs |-> SaveArtifact(r.fs, r.output_dir, fin.first)])
    /\ UNCHANGED <<pvars, rvars, bvars, svars, fin>>

\* The second model's output directory is created and its artifact saved.
D_second ==
    /\ fin.call = "dirs"
    /\ fout # None
    /\ fout.val.step = 1
    /\ LET r == get_model_output_dir(fout.val.fs, fin.second, fin.suffix) IN
       fout' = Some([step |-> 2, first_dir |-> fout.val.first_dir,
                     second_dir |-> r.output_dir,
                     fs |-> SaveArtifact(r.fs, r.output_dir, fin.second)])
    /\ UNCHANGED <<pvars, rvars, bvars, svars, fin>>

NextDirs == D_first \/ D_second

SpecDirs == InitDirs /\ [][NextDirs]_vars

\* C29: two distinct valid model identifiers, under the same challenge and API
\* configuration, get two distinct output directories, and the first model's
\* artifact is still there after the second model's directory was created.
C29_DistinctDirs ==
    (fout # None /\ fin.call = "dirs" /\ fin.first # fin.second) =>
        (fout.val.step = 2 =>
            /\ fout.val.first_dir # fout.val.second_dir
            /\ [dir |-> fout.val.first_dir, name |-> "attempt.scad", by |-> fin.first]
                  \in fout.val.fs.files)

=============================================================================
